---- MODULE Spec2Model ----
(***************************************************************************)
(* Model of the vote module (src/vote/module.py): the `vote` command of    *)
(* the Vote cog and the VoteObject that posts a poll, seeds its reactions, *)
(* sleeps until the end time, refetches the message and announces the      *)
(* result.  Coroutines are cut at their awaits; the chat platform (users   *)
(* reacting, moderators removing reactions, message deletion, failing      *)
(* calls) and the clock are the environment.                               *)
(***************************************************************************)
EXTENDS Integers, Sequences, FiniteSets, TLC

(* ---- bounds of the model ---- *)
\* the clock runs from 1 to MaxTime
MaxTime == 2
\* number of lines of an options block
MaxLines == 2
\* number of human users that can react
NumVoters == 2

\* the polls (command invocations) the model follows; each poll has its own
\* VoteObject and its own message
Polls == {1}
\* the invocations of a run with two commands in flight at once
ConcPolls == {1, 2}
Voters == 1..NumVoters
\* the bot's own user, author of the seed reactions
Me == 0
Users == Voters \cup {Me}

(* ---- text of the command: tokens, lines, end-time strings ---- *)
\* A whitespace-free token as text: form "plain" is the bare text `name`,
\* form "bracket" is the text "<:name:id>", form "bracket_a" is "<a:name:id>".
Tok(form, name, id) == [form |-> form, name |-> name, id |-> id]
NoTok == Tok("none", "", 0)

\* emoji.is_emoji: the unicode emoji known to the emoji package
UnicodeEmoji == {"E1"}
is_emoji(emoji_str) == emoji_str.form = "plain" /\ emoji_str.name \in UnicodeEmoji

\* re.match(EMOJI_REGEX, emoji_str): the bracketed form
EMOJI_REGEX(emoji_str) == emoji_str.form \in {"bracket", "bracket_a"}

\* self.bot.emojis: the custom emoji the bot can see, as (name, id)
BotEmojis == {[name |-> "c", id |-> 1]}

check_emoji(emoji_str) ==
    IF is_emoji(emoji_str) THEN TRUE
    ELSE IF EMOJI_REGEX(emoji_str)
         THEN (\E found \in BotEmojis : found.name = emoji_str.name)
         ELSE FALSE

\* the tokens the model draws option lines from
\* (an emoji, a custom emoji, the same name with another id, a custom emoji
\* the bot does not know, a word)
Tokens == { Tok("plain", "E1", 0), Tok("bracket", "c", 1), Tok("bracket", "c", 2),
            Tok("bracket", "u", 9), Tok("plain", "w", 0) }

\* A line of the options block after line.split(maxsplit=1): n pieces
\* (0 for a blank line, 1 for a single word, 2 for token and remainder).
Line(n, tok, desc) == [n |-> n, emoji_str |-> tok, description |-> desc]
NoLine == Line(0, NoTok, "")
Lines == {NoLine, Line(1, Tok("plain", "E1", 0), ""), Line(2, Tok("plain", "E1", 0), "B")}
           \cup {Line(2, t, "A") : t \in Tokens}

RECURSIVE SeqsUpTo(_, _)
SeqsUpTo(S, n) ==
    IF n = 0 THEN {<<>>}
    ELSE LET shorter == SeqsUpTo(S, n - 1)
         IN shorter \cup {Append(s, x) : s \in {t \in shorter : Len(t) = n - 1}, x \in S}

\* options_str.splitlines(): the argument is required, so at least one line
OptionBlocks == SeqsUpTo(Lines, MaxLines) \ {<<>>}

\* endtime_str: a delta from now, a datetime string, or unparseable text
EndStr(kind, v) == [kind |-> kind, v |-> v]
EndtimeStrs == {EndStr("bad", 0), EndStr("delta", 1), EndStr("datetime", 0)}

\* utils.time.parse_datetime: None stands for dateutil.parser.ParserError
ParserError == -1
parse_datetime(endtime_str, clock) ==
    CASE endtime_str.kind = "delta" -> clock + endtime_str.v
      [] endtime_str.kind = "datetime" -> endtime_str.v
      [] OTHER -> ParserError

(* ---- python dict, in insertion order: a sequence of (k, v) ---- *)
Keys(d) == {d[i].k : i \in 1..Len(d)}
Get(d, key) == (CHOOSE i \in 1..Len(d) : d[i].k = key)
DictGet(d, key) == d[Get(d, key)].v
\* (variant: a new key goes to the front, as in a mapping without
\* insertion order)
DictSetFront(d, key, val) ==
    IF key \in Keys(d)
    THEN [d EXCEPT ![Get(d, key)] = [k |-> key, v |-> val]]
    ELSE <<[k |-> key, v |-> val]>> \o d

DictSet(d, key, val) ==
    IF key \in Keys(d)
    THEN [d EXCEPT ![Get(d, key)] = [k |-> key, v |-> val]]
    ELSE Append(d, [k |-> key, v |-> val])

(* ---- Vote.vote: the option loop ---- *)
Reply(kind, line, tok, es) ==
    [kind |-> kind, option |-> line, emoji_str |-> tok, endtime_str |-> es]
NoEnd == EndStr("none", 0)

\* (variant: all lines are split first, the emoji are checked afterwards)
RECURSIVE ParseOptionsTwoPass(_, _)
ParseOptionsTwoPass(lines, options) ==
    LET malformed == {i \in 1..Len(lines) : lines[i].n < 2} IN
    IF lines = <<>> THEN [error |-> FALSE, options |-> options, reply |-> Reply("none", NoLine, NoTok, NoEnd)]
    ELSE IF malformed # {}
    THEN [error |-> TRUE, options |-> <<>>,
          reply |-> Reply("MalformedOption",
                          lines[CHOOSE i \in malformed : \A j \in malformed : i <= j],
                          NoTok, NoEnd)]
    ELSE LET line == Head(lines) IN
         IF check_emoji(line.emoji_str)
         THEN IF line.emoji_str \in Keys(options)
              THEN [error |-> TRUE, options |-> <<>>,
                    reply |-> Reply("DuplicateEmoji", NoLine, line.emoji_str, NoEnd)]
              ELSE ParseOptionsTwoPass(Tail(lines),
                                       DictSet(options, line.emoji_str, line.description))
         ELSE [error |-> TRUE, options |-> <<>>,
               reply |-> Reply("UnknownEmoji", NoLine, line.emoji_str, NoEnd)]

\* the loop over options_str.splitlines(): the first reply, or the options
RECURSIVE ParseOptions(_, _)
ParseOptions(lines, options) ==
    IF lines = <<>> THEN [error |-> FALSE, options |-> options, reply |-> Reply("none", NoLine, NoTok, NoEnd)]
    ELSE LET line == Head(lines) IN
         IF line.n < 2
         THEN [error |-> TRUE, options |-> <<>>,
               reply |-> Reply("MalformedOption", line, NoTok, NoEnd)]
         ELSE IF check_emoji(line.emoji_str)
         THEN IF line.emoji_str \in Keys(options)
              THEN [error |-> TRUE, options |-> <<>>,
                    reply |-> Reply("DuplicateEmoji", NoLine, line.emoji_str, NoEnd)]
              ELSE ParseOptions(Tail(lines),
                                DictSet(options, line.emoji_str, line.description))
         ELSE [error |-> TRUE, options |-> <<>>,
               reply |-> Reply("UnknownEmoji", NoLine, line.emoji_str, NoEnd)]

(* ---- the chat platform: emoji of reactions, reactions of a message ---- *)
\* reaction.emoji: a unicode emoji (id 0) or a custom emoji (name, id)
Emoji(name, id) == [name |-> name, id |-> id]
ReactionEmojis == {Emoji("E1", 0), Emoji("c", 1)}

\* str(reaction.emoji): the character itself, or "<:name:id>"
EmojiStr(e) ==
    IF e.id = 0 THEN Tok("plain", e.name, 0) ELSE Tok("bracket", e.name, e.id)

\* the emoji a reaction request with the text emoji_str puts on a message:
\* the text without "<>" names it, a custom emoji by name and id
\* (none when the text names no emoji of the platform: the call fails)
Resolve(emoji_str) ==
    {e \in ReactionEmojis :
        /\ e.name = emoji_str.name /\ e.id = emoji_str.id
        /\ (e.id = 0) <=> (emoji_str.form = "plain")}

\* The reactions of a message, in the order the platform lists them (the
\* order in which each emoji was first put on the message): a sequence of
\* (emoji, users).  An emoji nobody reacts with any more is dropped.
ReactionOf(rs, e) == CHOOSE i \in 1..Len(rs) : rs[i].emoji = e
HasReaction(rs, e) == \E i \in 1..Len(rs) : rs[i].emoji = e
Reacted(rs, u, e) == \E i \in 1..Len(rs) : rs[i].emoji = e /\ u \in rs[i].users

PutReaction(rs, u, e) ==
    IF HasReaction(rs, e)
    THEN [rs EXCEPT ![ReactionOf(rs, e)].users = @ \cup {u}]
    ELSE Append(rs, [emoji |-> e, users |-> {u}])

DropReaction(rs, u, e) ==
    LET i == ReactionOf(rs, e)
        left == rs[i].users \ {u}
    IN IF left = {}
       THEN SubSeq(rs, 1, i - 1) \o SubSeq(rs, i + 1, Len(rs))
       ELSE [rs EXCEPT ![i].users = left]

\* message.reactions of a fetched message: (emoji, count) in platform order
Fetched(rs) == [i \in 1..Len(rs) |-> [emoji |-> rs[i].emoji, count |-> Cardinality(rs[i].users)]]

(* ---- VoteObject.start: tally, ranking, result text ---- *)
\* (variant: the seed is not subtracted)
RECURSIVE CountVotesRaw(_, _, _)
CountVotesRaw(reactions, options, votes) ==
    IF reactions = <<>> THEN votes
    ELSE LET reaction == Head(reactions)
             emoji_str == EmojiStr(reaction.emoji)
         IN IF emoji_str \notin Keys(options)
            THEN CountVotesRaw(Tail(reactions), options, votes)
            ELSE CountVotesRaw(Tail(reactions), options,
                               DictSet(votes, emoji_str, reaction.count))

\* (variant: the loop runs over the options and looks each one's reaction
\* up, taking 0 as the raw count of an option without reaction)
RECURSIVE CountVotesOverOptions(_, _, _)
CountVotesOverOptions(reactions, options, votes) ==
    IF options = <<>> THEN votes
    ELSE LET emoji_str == Head(options).k
             found == {i \in 1..Len(reactions) : EmojiStr(reactions[i].emoji) = emoji_str}
             raw == IF found = {} THEN 0 ELSE reactions[CHOOSE i \in found : TRUE].count
         IN CountVotesOverOptions(reactions, Tail(options),
                                  DictSet(votes, emoji_str, raw - 1))

\* the loop over self.message.reactions filling the votes dict
RECURSIVE CountVotes(_, _, _)
CountVotes(reactions, options, votes) ==
    IF reactions = <<>> THEN votes
    ELSE LET reaction == Head(reactions)
             emoji_str == EmojiStr(reaction.emoji)
         IN IF emoji_str \notin Keys(options)
            THEN CountVotes(Tail(reactions), options, votes)
            ELSE CountVotes(Tail(reactions), options,
                            DictSet(votes, emoji_str, reaction.count - 1))

\* (variant: reverse=True forgotten, ascending order)
InsertSortedAscending(sorted, item) ==
    LET ahead == {i \in 1..Len(sorted) : sorted[i].v <= item.v}
        n == IF ahead = {} THEN 0 ELSE CHOOSE i \in ahead : \A j \in ahead : j <= i
    IN SubSeq(sorted, 1, n) \o <<item>> \o SubSeq(sorted, n + 1, Len(sorted))

\* (variant: descending, but an item goes ahead of the items of equal count)
InsertSortedUnstable(sorted, item) ==
    LET ahead == {i \in 1..Len(sorted) : sorted[i].v > item.v}
        n == IF ahead = {} THEN 0 ELSE CHOOSE i \in ahead : \A j \in ahead : j <= i
    IN SubSeq(sorted, 1, n) \o <<item>> \o SubSeq(sorted, n + 1, Len(sorted))

\* sorted(votes.items(), key=lambda x: x[1], reverse=True): stable, so an
\* item goes behind every item already placed whose count is not lower
InsertSorted(sorted, item) ==
    LET ahead == {i \in 1..Len(sorted) : sorted[i].v >= item.v}
        n == IF ahead = {} THEN 0 ELSE CHOOSE i \in ahead : \A j \in ahead : j <= i
    IN SubSeq(sorted, 1, n) \o <<item>> \o SubSeq(sorted, n + 1, Len(sorted))

RECURSIVE SortedVotes(_)
SortedVotes(votes) ==
    IF votes = <<>> THEN <<>>
    ELSE InsertSorted(SortedVotes(SubSeq(votes, 1, Len(votes) - 1)), votes[Len(votes)])

\* one line of the result text; bold marks "**...**"
ResultLine(item, max_votes, options) ==
    [vote_count |-> item.v, emoji |-> item.k, option |-> DictGet(options, item.k),
     bold |-> (max_votes = item.v)]

\* the lines of the result text; sorted_votes is not empty
ResultText(sorted_votes, options) ==
    LET max_votes == sorted_votes[1].v
    IN [i \in 1..Len(sorted_votes) |-> ResultLine(sorted_votes[i], max_votes, options)]

\* the log entries of guild_log
LogEntry(level, text, votes) == [level |-> level, text |-> text, votes |-> votes]

(* ---- state ---- *)
VARIABLES
    now,          \* the clock (datetime.datetime.now())
    command,      \* the invocation: endtime_str, options_str, and when it came
    pc,           \* pc[p]: where the command coroutine of poll p stands
    end_time,     \* VoteObject.end_time
    options,      \* VoteObject.options: dict emoji_str -> description
    self_message, \* VoteObject.message: unset, or the reactions it carries
    seed_index,   \* position of the loop of add_reactions
    sleep,        \* the pending asyncio.sleep: when it began and its delay
    msg,          \* the poll message on the platform: "none", "live", "deleted"
    reactions,    \* the reactions of the poll message on the platform
    votes,        \* the local votes dict of start()
    replies,      \* what ctx.reply sent
    poll_text,    \* what send_message posted: the option lines of each post
    seeds,        \* the add_reaction calls that succeeded, in order
    log,          \* the entries written to guild_log
    results,      \* the result texts sent with ctx.send
    fetches       \* number of fetch_message calls

vars == <<now, command, pc, end_time, options, self_message, seed_index, sleep, msg,
          reactions, votes, replies, poll_text, seeds, log, results, fetches>>

\* the parts of a poll that only the command coroutine writes
object_vars == <<end_time, options, self_message, seed_index, sleep, votes>>
\* what the coroutine sent out
output_vars == <<replies, poll_text, seeds, log, results, fetches>>

Unset == [set |-> FALSE, reactions |-> <<>>]
Message(rs) == [set |-> TRUE, reactions |-> rs]
NoSleep == [since |-> 0, delay |-> 0]
Command(endtime_str, options_str, at) ==
    [endtime_str |-> endtime_str, options_str |-> options_str, at |-> at]
NoCommand == Command(NoEnd, <<>>, 0)

Init ==
    /\ now = 1
    /\ command = [p \in ConcPolls |-> NoCommand]
    /\ pc = [p \in ConcPolls |-> "idle"]
    /\ end_time = [p \in ConcPolls |-> 0]
    /\ options = [p \in ConcPolls |-> <<>>]
    /\ self_message = [p \in ConcPolls |-> Unset]
    /\ seed_index = [p \in ConcPolls |-> 0]
    /\ sleep = [p \in ConcPolls |-> NoSleep]
    /\ msg = [p \in ConcPolls |-> "none"]
    /\ reactions = [p \in ConcPolls |-> <<>>]
    /\ votes = [p \in ConcPolls |-> <<>>]
    /\ replies = [p \in ConcPolls |-> <<>>]
    /\ poll_text = [p \in ConcPolls |-> <<>>]
    /\ seeds = [p \in ConcPolls |-> <<>>]
    /\ log = [p \in ConcPolls |-> <<>>]
    /\ results = [p \in ConcPolls |-> <<>>]
    /\ fetches = [p \in ConcPolls |-> 0]

(* ---- the clock ---- *)
Tick ==
    /\ now < MaxTime
    /\ now' = now + 1
    /\ UNCHANGED <<command, pc, object_vars, msg, reactions, output_vars>>

(* ---- Vote.vote ---- *)
\* the command up to its first await on the platform: a reply and return,
\* or the VoteObject built and send_message about to post
\* (variant: the `return` after a reply of the option loop is missing, and
\* the command goes on to create the poll)
VoteWithNoReturn(p, endtime_str, options_str) ==
    /\ pc[p] = "idle"
    /\ command' = [command EXCEPT ![p] = Command(endtime_str, options_str, now)]
    /\ LET end == parse_datetime(endtime_str, now)
           parsed == ParseOptions(options_str, <<>>)
       IN /\ end <= MaxTime
          /\ IF end = ParserError
             THEN /\ replies' = [replies EXCEPT
                        ![p] = Append(@, Reply("InvalidDeadline", NoLine, NoTok, endtime_str))]
                  /\ pc' = [pc EXCEPT ![p] = "rejected"]
                  /\ UNCHANGED <<end_time, options>>
             ELSE /\ replies' = [replies EXCEPT
                        ![p] = IF parsed.error THEN Append(@, parsed.reply) ELSE @]
                  /\ end_time' = [end_time EXCEPT ![p] = end]
                  /\ options' = [options EXCEPT ![p] = parsed.options]
                  /\ pc' = [pc EXCEPT ![p] = "send_message"]
    /\ UNCHANGED <<now, self_message, seed_index, sleep, votes, msg, reactions,
                   poll_text, seeds, log, results, fetches>>

\* (variant: options is an attribute of the class, shared by all objects)
VoteWithSharedOptions(p, endtime_str, options_str) ==
    /\ pc[p] = "idle"
    /\ command' = [command EXCEPT ![p] = Command(endtime_str, options_str, now)]
    /\ LET end == parse_datetime(endtime_str, now)
           parsed == ParseOptions(options_str, <<>>)
       IN /\ end <= MaxTime
          /\ IF end = ParserError
             THEN /\ replies' = [replies EXCEPT
                        ![p] = Append(@, Reply("InvalidDeadline", NoLine, NoTok, endtime_str))]
                  /\ pc' = [pc EXCEPT ![p] = "rejected"]
                  /\ UNCHANGED <<end_time, options>>
             ELSE IF parsed.error
             THEN /\ replies' = [replies EXCEPT ![p] = Append(@, parsed.reply)]
                  /\ pc' = [pc EXCEPT ![p] = "rejected"]
                  /\ UNCHANGED <<end_time, options>>
             ELSE /\ end_time' = [end_time EXCEPT ![p] = end]
                  /\ options' = [q \in DOMAIN options |-> parsed.options]
                  /\ pc' = [pc EXCEPT ![p] = "send_message"]
                  /\ UNCHANGED replies
    /\ UNCHANGED <<now, self_message, seed_index, sleep, votes, msg, reactions,
                   poll_text, seeds, log, results, fetches>>

VoteWith(p, endtime_str, options_str) ==
    /\ pc[p] = "idle"
    /\ command' = [command EXCEPT ![p] = Command(endtime_str, options_str, now)]
    /\ LET end == parse_datetime(endtime_str, now)
           parsed == ParseOptions(options_str, <<>>)
       IN /\ end <= MaxTime
          /\ IF end = ParserError
             THEN /\ replies' = [replies EXCEPT
                        ![p] = Append(@, Reply("InvalidDeadline", NoLine, NoTok, endtime_str))]
                  /\ pc' = [pc EXCEPT ![p] = "rejected"]
                  /\ UNCHANGED <<end_time, options>>
             ELSE IF parsed.error
             THEN /\ replies' = [replies EXCEPT ![p] = Append(@, parsed.reply)]
                  /\ pc' = [pc EXCEPT ![p] = "rejected"]
                  /\ UNCHANGED <<end_time, options>>
             ELSE /\ end_time' = [end_time EXCEPT ![p] = end]
                  /\ options' = [options EXCEPT ![p] = parsed.options]
                  /\ pc' = [pc EXCEPT ![p] = "send_message"]
                  /\ UNCHANGED replies
    /\ UNCHANGED <<now, self_message, seed_index, sleep, votes, msg, reactions,
                   poll_text, seeds, log, results, fetches>>

\* the command with any end-time string and any options block
Vote(p) ==
    /\ pc[p] = "idle"
    /\ \E endtime_str \in EndtimeStrs, options_str \in OptionBlocks :
          VoteWith(p, endtime_str, options_str)

(* ---- VoteObject.send_message ---- *)
\* where the coroutine stands once the seed loop has reached index i: in the
\* loop, or past it and in start() at its first await
AfterSeed(opts, i) == IF i <= Len(opts) THEN "add_reactions" ELSE "start"

\* ctx.send(text) succeeds: the message exists and self.message is set
SendMessage(p) ==
    /\ pc[p] = "send_message"
    /\ msg' = [msg EXCEPT ![p] = "live"]
    /\ poll_text' = [poll_text EXCEPT ![p] = Append(@, options[p])]
    /\ self_message' = [self_message EXCEPT ![p] = Message(<<>>)]
    /\ seed_index' = [seed_index EXCEPT ![p] = 1]
    /\ pc' = [pc EXCEPT ![p] = AfterSeed(options[p], 1)]
    /\ UNCHANGED <<command, now, end_time, options, sleep, votes, reactions,
                   replies, seeds, log, results, fetches>>

\* (variant: the exception of ctx.send is swallowed; add_reactions finds no
\* message and returns, start() runs)
SendMessageFailsSwallowed(p) ==
    /\ pc[p] = "send_message"
    /\ pc' = [pc EXCEPT ![p] = "start"]
    /\ UNCHANGED <<command, now, object_vars, msg, reactions, output_vars>>

\* ctx.send(text) raises: the exception leaves the command
SendMessageFails(p) ==
    /\ pc[p] = "send_message"
    /\ pc' = [pc EXCEPT ![p] = "send_failed"]
    /\ UNCHANGED <<command, now, object_vars, msg, reactions, output_vars>>

(* ---- VoteObject.add_reactions ---- *)
\* `if not self.message` never holds here: send_message either set
\* self.message or raised, and then add_reactions is not called.
\* one self.message.add_reaction(emoji_str) that succeeds
AddReaction(p) ==
    /\ pc[p] = "add_reactions"
    /\ self_message[p].set
    /\ msg[p] = "live"
    /\ LET emoji_str == options[p][seed_index[p]].k IN
       \E e \in Resolve(emoji_str) :
          /\ reactions' = [reactions EXCEPT ![p] = PutReaction(@, Me, e)]
          /\ seeds' = [seeds EXCEPT ![p] = Append(@, emoji_str)]
    /\ seed_index' = [seed_index EXCEPT ![p] = @ + 1]
    /\ pc' = [pc EXCEPT ![p] = AfterSeed(options[p], seed_index[p] + 1)]
    /\ UNCHANGED <<command, now, end_time, options, self_message, sleep, votes, msg,
                   replies, poll_text, log, results, fetches>>

\* (variant: the exception of add_reaction is caught and the loop goes on
\* with the next option)
AddReactionFailsSkipped(p) ==
    /\ pc[p] = "add_reactions"
    /\ self_message[p].set
    /\ seed_index' = [seed_index EXCEPT ![p] = @ + 1]
    /\ pc' = [pc EXCEPT ![p] = AfterSeed(options[p], seed_index[p] + 1)]
    /\ UNCHANGED <<command, now, end_time, options, self_message, sleep, votes, msg,
                   reactions, output_vars>>

\* one add_reaction that raises (unknown emoji, message gone, no permission)
AddReactionFails(p) ==
    /\ pc[p] = "add_reactions"
    /\ self_message[p].set
    /\ pc' = [pc EXCEPT ![p] = "reaction_failed"]
    /\ UNCHANGED <<command, now, object_vars, msg, reactions, output_vars>>

(* ---- VoteObject.start ---- *)
\* guild_log.info("Vote started!"), then asyncio.sleep is called with the
\* time left until end_time
Start(p) ==
    /\ pc[p] = "start"
    /\ log' = [log EXCEPT ![p] = Append(@, LogEntry("info", "Vote started!", <<>>))]
    /\ sleep' = [sleep EXCEPT ![p] = [since |-> now, delay |-> end_time[p] - now]]
    /\ pc' = [pc EXCEPT ![p] = "sleeping"]
    /\ UNCHANGED <<command, now, end_time, options, self_message, seed_index, votes, msg,
                   reactions, replies, poll_text, seeds, results, fetches>>

\* (variant: the sleep returns at once, as if the delay were not honoured)
SleepOverAtOnce(s, clock) == TRUE

\* asyncio.sleep(delay) has returned: delay seconds have passed since it
\* began (at once when delay <= 0)
SleepOver(s, clock) == clock - s.since >= s.delay

\* the sleep is over and fetch_message returns the message as it is now
FetchMessage(p) ==
    /\ pc[p] = "sleeping"
    /\ SleepOver(sleep[p], now)
    /\ msg[p] = "live"
    /\ fetches' = [fetches EXCEPT ![p] = @ + 1]
    /\ self_message' = [self_message EXCEPT ![p] = Message(Fetched(reactions[p]))]
    /\ pc' = [pc EXCEPT ![p] = "fetched"]
    /\ UNCHANGED <<command, now, end_time, options, seed_index, sleep, votes, msg,
                   reactions, replies, poll_text, seeds, log, results>>

\* the sleep is over and fetch_message raises (message deleted, channel
\* gone, transient error)
FetchMessageFails(p) ==
    /\ pc[p] = "sleeping"
    /\ SleepOver(sleep[p], now)
    /\ fetches' = [fetches EXCEPT ![p] = @ + 1]
    /\ pc' = [pc EXCEPT ![p] = "except"]
    /\ UNCHANGED <<command, now, end_time, options, self_message, seed_index, sleep, votes,
                   msg, reactions, replies, poll_text, seeds, log, results>>

\* (variant: the except branch logs and tries the fetch once more)
LogNotFoundRetry(p) ==
    /\ pc[p] = "except"
    /\ log' = [log EXCEPT ![p] = Append(@,
                  LogEntry("warning", "Vote ended but the message was not found!", <<>>))]
    /\ pc' = [pc EXCEPT ![p] = IF fetches[p] < 2 THEN "sleeping" ELSE "Failed"]
    /\ UNCHANGED <<command, now, object_vars, msg, reactions,
                   replies, poll_text, seeds, results, fetches>>

\* the except branch: guild_log.warning(...) and return
LogNotFound(p) ==
    /\ pc[p] = "except"
    /\ log' = [log EXCEPT ![p] = Append(@,
                  LogEntry("warning", "Vote ended but the message was not found!", <<>>))]
    /\ pc' = [pc EXCEPT ![p] = "Failed"]
    /\ UNCHANGED <<command, now, object_vars, msg, reactions,
                   replies, poll_text, seeds, results, fetches>>

\* (variant: the log message leaves out the entries with count 0)
TallyLogsVoted(p) ==
    /\ pc[p] = "fetched"
    /\ LET counted == CountVotes(self_message[p].reactions, options[p], <<>>) IN
       /\ votes' = [votes EXCEPT ![p] = counted]
       /\ log' = [log EXCEPT ![p] = Append(@,
                     LogEntry("info", "Vote ended", SelectSeq(counted, LAMBDA kv : kv.v >= 1)))]
    /\ pc' = [pc EXCEPT ![p] = "logged"]
    /\ UNCHANGED <<command, now, end_time, options, self_message, seed_index, sleep, msg,
                   reactions, replies, poll_text, seeds, results, fetches>>

\* the votes dict is filled and guild_log.info("Vote ended: ...") written
Tally(p) ==
    /\ pc[p] = "fetched"
    /\ LET counted == CountVotes(self_message[p].reactions, options[p], <<>>) IN
       /\ votes' = [votes EXCEPT ![p] = counted]
       /\ log' = [log EXCEPT ![p] = Append(@, LogEntry("info", "Vote ended", counted))]
    /\ pc' = [pc EXCEPT ![p] = "logged"]
    /\ UNCHANGED <<command, now, end_time, options, self_message, seed_index, sleep, msg,
                   reactions, replies, poll_text, seeds, results, fetches>>

\* (variant: the result text is sent, and sent once more)
AnnounceTwice(p) ==
    /\ pc[p] = "logged"
    /\ LET sorted_votes == SortedVotes(votes[p]) IN
       IF sorted_votes = <<>>
       THEN /\ pc' = [pc EXCEPT ![p] = "IndexError"]
            /\ UNCHANGED results
       ELSE /\ results' = [results EXCEPT
                  ![p] = Append(@, ResultText(sorted_votes, options[p]))]
            /\ pc' = [pc EXCEPT ![p] = IF results[p] = <<>> THEN "logged" ELSE "Closed"]
    /\ UNCHANGED <<command, now, object_vars, msg, reactions,
                   replies, poll_text, seeds, log, fetches>>

\* sorted_votes[0] of an empty list raises IndexError: start() ends there
Announce(p) ==
    /\ pc[p] = "logged"
    /\ LET sorted_votes == SortedVotes(votes[p]) IN
       IF sorted_votes = <<>>
       THEN /\ pc' = [pc EXCEPT ![p] = "IndexError"]
            /\ UNCHANGED results
       ELSE /\ results' = [results EXCEPT
                  ![p] = Append(@, ResultText(sorted_votes, options[p]))]
            /\ pc' = [pc EXCEPT ![p] = "Closed"]
    /\ UNCHANGED <<command, now, object_vars, msg, reactions,
                   replies, poll_text, seeds, log, fetches>>

(* ---- the platform's users ---- *)
\* The message can be reacted to from the moment it is posted.  What happens
\* to it after the refetch is read by nothing, and is left out.
Open(p) == msg[p] = "live" /\ pc[p] \in {"add_reactions", "start", "sleeping"}

\* a user adds a reaction
UserReacts(p, u, e) ==
    /\ Open(p)
    /\ ~Reacted(reactions[p], u, e)
    /\ reactions' = [reactions EXCEPT ![p] = PutReaction(@, u, e)]
    /\ UNCHANGED <<command, now, pc, object_vars, msg, output_vars>>

\* a reaction is removed: by its user, or by a moderator (also the bot's)
ReactionRemoved(p, u, e) ==
    /\ Open(p)
    /\ Reacted(reactions[p], u, e)
    /\ reactions' = [reactions EXCEPT ![p] = DropReaction(@, u, e)]
    /\ UNCHANGED <<command, now, pc, object_vars, msg, output_vars>>

\* the poll message is deleted
MessageDeleted(p) ==
    /\ Open(p)
    /\ msg' = [msg EXCEPT ![p] = "deleted"]
    /\ UNCHANGED <<command, now, pc, object_vars, reactions, output_vars>>

Next ==
    \/ Tick
    \/ \E p \in Polls : Vote(p)
    \/ \E p \in Polls : SendMessage(p)
    \/ \E p \in Polls : SendMessageFails(p)
    \/ \E p \in Polls : AddReaction(p)
    \/ \E p \in Polls : AddReactionFails(p)
    \/ \E p \in Polls : Start(p)
    \/ \E p \in Polls : FetchMessage(p)
    \/ \E p \in Polls : FetchMessageFails(p)
    \/ \E p \in Polls : LogNotFound(p)
    \/ \E p \in Polls : Tally(p)
    \/ \E p \in Polls : Announce(p)
    \/ \E p \in Polls, u \in Voters, e \in ReactionEmojis : UserReacts(p, u, e)
    \/ \E p \in Polls, u \in Users, e \in ReactionEmojis : ReactionRemoved(p, u, e)
    \/ \E p \in Polls : MessageDeleted(p)

Spec == Init /\ [][Next]_vars

(* ---- two commands in flight: each a one-option poll on the unicode ---- *)
(* ---- emoji, one kind open for a unit of time, the other with an end ---- *)
(* ---- time already past; one voter                                   ---- *)
ConcCommands == { <<EndStr("delta", 1), <<Line(2, Tok("plain", "E1", 0), "A")>> >>,
                  <<EndStr("datetime", 0), <<Line(2, Tok("plain", "E1", 0), "B")>> >> }
ConcVoters == {1}
ConcEmojis == {Emoji("E1", 0)}

NextConc ==
    \/ Tick
    \/ \E p \in ConcPolls, c \in ConcCommands : VoteWith(p, c[1], c[2])
    \/ \E p \in ConcPolls : SendMessage(p)
    \/ \E p \in ConcPolls : SendMessageFails(p)
    \/ \E p \in ConcPolls : AddReaction(p)
    \/ \E p \in ConcPolls : AddReactionFails(p)
    \/ \E p \in ConcPolls : Start(p)
    \/ \E p \in ConcPolls : FetchMessage(p)
    \/ \E p \in ConcPolls : FetchMessageFails(p)
    \/ \E p \in ConcPolls : LogNotFound(p)
    \/ \E p \in ConcPolls : Tally(p)
    \/ \E p \in ConcPolls : Announce(p)
    \/ \E p \in ConcPolls, u \in ConcVoters, e \in ConcEmojis : UserReacts(p, u, e)
    \/ \E p \in ConcPolls, u \in ConcVoters \cup {Me}, e \in ConcEmojis :
          ReactionRemoved(p, u, e)
    \/ \E p \in ConcPolls : MessageDeleted(p)

ConcSpec == Init /\ [][NextConc]_vars

(* ---- one command whose lines may write the custom emoji in two ways, ---- *)
(* ---- `<:c:1>` and `<a:c:1>`; nobody reacts or deletes               ---- *)
PrefixLines == { Line(2, Tok("plain", "E1", 0), "A"), Line(2, Tok("bracket", "c", 1), "A"),
                 Line(2, Tok("bracket", "c", 1), "B"), Line(2, Tok("bracket_a", "c", 1), "A") }
PrefixBlocks == SeqsUpTo(PrefixLines, MaxLines) \ {<<>>}

NextPrefix ==
    \/ Tick
    \/ \E p \in Polls, endtime_str \in EndtimeStrs, options_str \in PrefixBlocks :
          VoteWith(p, endtime_str, options_str)
    \/ \E p \in Polls : SendMessage(p)
    \/ \E p \in Polls : SendMessageFails(p)
    \/ \E p \in Polls : AddReaction(p)
    \/ \E p \in Polls : AddReactionFails(p)
    \/ \E p \in Polls : Start(p)
    \/ \E p \in Polls : FetchMessage(p)
    \/ \E p \in Polls : FetchMessageFails(p)
    \/ \E p \in Polls : LogNotFound(p)
    \/ \E p \in Polls : Tally(p)
    \/ \E p \in Polls : Announce(p)

PrefixSpec == Init /\ [][NextPrefix]_vars

(* ---- fairness: the event loop runs every coroutine that can go on, the ---- *)
(* ---- platform answers every call, the clock advances                    ---- *)
Run(p) ==
    \/ Vote(p)
    \/ SendMessage(p) \/ SendMessageFails(p)
    \/ AddReaction(p) \/ AddReactionFails(p)
    \/ Start(p)
    \/ FetchMessage(p) \/ FetchMessageFails(p)
    \/ LogNotFound(p)
    \/ Tally(p)
    \/ Announce(p)

LiveSpec == Spec /\ WF_vars(Tick) /\ \A p \in Polls : WF_vars(Run(p))

(* ---- lifecycle states of a poll ---- *)
\* the message is posted and every seed reaction is attached
Opened(p) ==
    /\ poll_text[p] # <<>>
    /\ Len(seeds[p]) = Len(options[p])
\* the result text was sent
Closed(p) == pc[p] = "Closed"
\* the refetch failed and the warning was logged
Failed(p) == pc[p] = "Failed"
\* the votes dict of start() has been filled
Tallied(p) == pc[p] \in {"logged", "Closed", "IndexError"}
\* the sleep of start() has begun
WaitBegun(p) == pc[p] \in {"sleeping", "fetched", "except", "Failed", "logged", "Closed", "IndexError"}

\* the voters (users other than the bot) who have emoji_str on the message
VotersOf(rs, emoji_str) ==
    {u \in Voters : \E e \in ReactionEmojis : EmojiStr(e) = emoji_str /\ Reacted(rs, u, e)}

\* the result text a poll sent (at most one is ever sent)
Result(p) == results[p][1]

(* ---- C1 ---- *)
\* C1: once a poll is opened (message posted, every seed reaction attached)
\* it eventually is Closed (result text sent) or Failed (refetch failed,
\* warning logged), whatever reactions users add and remove meanwhile.
C1_OpenedPollTerminates == \A p \in Polls : Opened(p) ~> (Closed(p) \/ Failed(p))

(* ---- C2 ---- *)
\* C2: within one poll the message is posted before any seed reaction, all
\* seed reactions (one per option, in order) are attached before the wait
\* begins, the message is refetched only once the wait has begun and the
\* clock has reached end_time, and no result text is sent before end_time.
C2_StepsInOrder ==
    \A p \in Polls :
        /\ seeds[p] # <<>> => poll_text[p] # <<>>
        /\ WaitBegun(p) =>
              /\ Opened(p)
              /\ seeds[p] = [i \in 1..Len(options[p]) |-> options[p][i].k]
        /\ fetches[p] > 0 => (WaitBegun(p) /\ now >= end_time[p])
        /\ results[p] # <<>> => (fetches[p] > 0 /\ now >= end_time[p])

\* a poll with two options and an end time ahead of the command has closed
C2_Witness ==
    \E p \in Polls : Closed(p) /\ Len(options[p]) = 2 /\ end_time[p] > sleep[p].since

(* ---- C3 ---- *)
Warnings(p) == Cardinality({i \in 1..Len(log[p]) : log[p][i].level = "warning"})

\* C3: when the refetch fails the poll becomes Failed: the warning is logged
\* once, no result text is sent then or later (the log keeps the warning, so
\* a later result text would show next to it), and fetch_message is not
\* called again (one call per poll).
C3_FetchFailureIsFinal ==
    \A p \in Polls :
        /\ fetches[p] <= 1
        /\ pc[p] \in {"except", "Failed"} =>
              (fetches[p] = 1 /\ results[p] = <<>> /\ votes[p] = <<>>)
        /\ pc[p] = "except" => Warnings(p) = 0
        /\ Failed(p) => Warnings(p) = 1
        /\ Warnings(p) > 0 => (Failed(p) /\ results[p] = <<>>)

\* the refetch failed although the message is still there
C3_Witness == \E p \in Polls : Failed(p) /\ msg[p] = "live" /\ reactions[p] # <<>>

(* ---- C4 ---- *)
\* C4: every count of the result text equals the number of distinct voters,
\* the bot not counted, who have that option's emoji on the message at
\* refetch time.
C4_CountIsVoters ==
    \A p \in Polls : Closed(p) =>
        \A i \in 1..Len(Result(p)) :
            Result(p)[i].vote_count = Cardinality(VotersOf(reactions[p], Result(p)[i].emoji))

(* ---- C5 ---- *)
\* C5: the result text of a Closed poll has exactly one line for every
\* option of the poll.
C5_OneLinePerOption ==
    \A p \in Polls : Closed(p) =>
        /\ Len(Result(p)) = Len(options[p])
        /\ \A k \in Keys(options[p]) : \E i \in 1..Len(Result(p)) : Result(p)[i].emoji = k

(* ---- C6 ---- *)
NoVotes(p) == \A i \in 1..Len(votes[p]) : votes[p][i].v = 0

\* C6: when no option received a vote (all counts zero, or the votes dict
\* empty) the poll still closes: the result text is sent, with every line a
\* winner at count 0.
C6_NoVotesStillCloses ==
    \A p \in Polls : (pc[p] \in {"Closed", "IndexError"} /\ NoVotes(p)) =>
        /\ Closed(p)
        /\ \A i \in 1..Len(Result(p)) : Result(p)[i].vote_count = 0 /\ Result(p)[i].bold

(* ---- C7 ---- *)
FetchedStrs(p) ==
    {EmojiStr(self_message[p].reactions[i].emoji) : i \in 1..Len(self_message[p].reactions)}

\* C7: at tally time every reaction of the refetched message whose emoji is
\* an option is recorded with its raw count minus 1; a reaction whose emoji
\* is no option is recorded nowhere and has no line in the result text; the
\* result text shows the recorded counts.
C7_RawCountMinusOne ==
    \A p \in Polls : Tallied(p) =>
        /\ \A i \in 1..Len(self_message[p].reactions) :
              LET reaction == self_message[p].reactions[i]
                  k == EmojiStr(reaction.emoji)
              IN IF k \in Keys(options[p])
                 THEN k \in Keys(votes[p]) /\ DictGet(votes[p], k) = reaction.count - 1
                 ELSE /\ k \notin Keys(votes[p])
                      /\ Closed(p) => \A j \in 1..Len(Result(p)) : Result(p)[j].emoji # k
        /\ Keys(votes[p]) \subseteq FetchedStrs(p)
        /\ Closed(p) => \A j \in 1..Len(Result(p)) :
              /\ Result(p)[j].emoji \in Keys(votes[p])
              /\ Result(p)[j].vote_count = DictGet(votes[p], Result(p)[j].emoji)

\* a closed poll whose message carried a reaction that is no option and an
\* option reaction of raw count 3, shown as 2
C7_Witness ==
    \E p \in Polls :
        /\ Closed(p)
        /\ FetchedStrs(p) \ Keys(options[p]) # {}
        /\ \E i \in 1..Len(self_message[p].reactions) :
              /\ self_message[p].reactions[i].count = 3
              /\ \E j \in 1..Len(Result(p)) :
                    /\ Result(p)[j].emoji = EmojiStr(self_message[p].reactions[i].emoji)
                    /\ Result(p)[j].vote_count = 2

(* ---- C8 ---- *)
\* the highest count of the votes dict (votes is not empty)
MaxCount(vs) == CHOOSE m \in {vs[i].v : i \in 1..Len(vs)} : \A i \in 1..Len(vs) : vs[i].v <= m

\* C8: the result text has one line per tallied entry, and a line is bold
\* exactly when its count is the highest count among the tallied entries;
\* all lines tied at the highest count are bold.
C8_WinnersAreTheMaxima ==
    \A p \in Polls : Closed(p) =>
        /\ Len(Result(p)) = Len(votes[p])
        /\ \A i \in 1..Len(votes[p]) : \E j \in 1..Len(Result(p)) :
              Result(p)[j].emoji = votes[p][i].k /\ Result(p)[j].vote_count = votes[p][i].v
        /\ \A j \in 1..Len(Result(p)) :
              Result(p)[j].bold <=> (Result(p)[j].vote_count = MaxCount(votes[p]))

\* two options tied at a count above zero, both bold
C8_Witness ==
    \E p \in Polls :
        /\ Closed(p)
        /\ Len(Result(p)) = 2
        /\ Result(p)[1].vote_count = Result(p)[2].vote_count
        /\ Result(p)[1].vote_count > 0
        /\ Result(p)[1].bold /\ Result(p)[2].bold

(* ---- C9 ---- *)
NonIncreasing(text) ==
    \A i, j \in 1..Len(text) : i < j => text[i].vote_count >= text[j].vote_count

\* position of an option in the poll definition
OptionPos(p, k) == Get(options[p], k)
\* position of an option's reaction on the refetched message
FetchedPos(p, k) ==
    CHOOSE i \in 1..Len(self_message[p].reactions) :
        EmojiStr(self_message[p].reactions[i].emoji) = k

\* C9 as claimed: the lines of the result text are in non-increasing order
\* of count, and lines of equal count are in the order of the poll
\* definition.
C9_TiesInDefinitionOrder ==
    \A p \in Polls : Closed(p) =>
        /\ NonIncreasing(Result(p))
        /\ \A i, j \in 1..Len(Result(p)) :
              (i < j /\ Result(p)[i].vote_count = Result(p)[j].vote_count) =>
                  OptionPos(p, Result(p)[i].emoji) < OptionPos(p, Result(p)[j].emoji)

\* C9 amended: the lines of the result text are in non-increasing order of
\* count, and lines of equal count are in the order in which the refetched
\* message lists their reactions.
C9_TiesInReactionOrder ==
    \A p \in Polls : Closed(p) =>
        /\ NonIncreasing(Result(p))
        /\ \A i, j \in 1..Len(Result(p)) :
              (i < j /\ Result(p)[i].vote_count = Result(p)[j].vote_count) =>
                  FetchedPos(p, Result(p)[i].emoji) < FetchedPos(p, Result(p)[j].emoji)

\* two tied lines that stand in the order of the message's reactions and
\* against the order of the poll definition
C9_Witness ==
    \E p \in Polls :
        /\ Closed(p)
        /\ Len(Result(p)) = 2
        /\ Result(p)[1].vote_count = Result(p)[2].vote_count
        /\ OptionPos(p, Result(p)[1].emoji) > OptionPos(p, Result(p)[2].emoji)

(* ---- C10 ---- *)
\* C10: every count of a result text and of an audit log line is a
\* non-negative integer.
C10_CountsNonNegative ==
    \A p \in Polls :
        /\ \A n \in 1..Len(results[p]) : \A i \in 1..Len(results[p][n]) :
              results[p][n][i].vote_count \in Nat
        /\ \A n \in 1..Len(log[p]) : \A i \in 1..Len(log[p][n].votes) :
              log[p][n].votes[i].v \in Nat

\* a closed poll with an option whose seed reaction was removed and that a
\* voter reacted to: raw count 1, shown as 0
C10_Witness ==
    \E p \in Polls :
        /\ Closed(p)
        /\ \E i \in 1..Len(reactions[p]) :
              /\ EmojiStr(reactions[p][i].emoji) \in Keys(options[p])
              /\ Me \notin reactions[p][i].users
              /\ \E j \in 1..Len(Result(p)) :
                    /\ Result(p)[j].emoji = EmojiStr(reactions[p][i].emoji)
                    /\ Result(p)[j].vote_count = 0

(* ---- C11 ---- *)
\* the reply repeats the piece of the command it complains about
Echoes(reply, c) ==
    CASE reply.kind = "InvalidDeadline" ->
            reply.endtime_str = c.endtime_str /\ reply.option = NoLine /\ reply.emoji_str = NoTok
      [] reply.kind = "MalformedOption" ->
            \E i \in 1..Len(c.options_str) :
                c.options_str[i].n < 2 /\ reply.option = c.options_str[i]
      [] reply.kind \in {"UnknownEmoji", "DuplicateEmoji"} ->
            \E i \in 1..Len(c.options_str) :
                c.options_str[i].n = 2 /\ reply.emoji_str = c.options_str[i].emoji_str
      [] OTHER -> FALSE

\* nothing of a poll exists: no message, no reaction, no sleep, no log entry,
\* no fetch, no result text
NothingPosted(p) ==
    /\ msg[p] = "none" /\ poll_text[p] = <<>>
    /\ seeds[p] = <<>> /\ reactions[p] = <<>>
    /\ sleep[p] = NoSleep /\ ~WaitBegun(p)
    /\ log[p] = <<>> /\ fetches[p] = 0 /\ results[p] = <<>>
    /\ self_message[p] = Unset

\* C11: a command that got an error reply is rejected for good: it sent
\* that one reply, which repeats the offending input, and nothing else: no
\* poll message, no reaction, no wait, no result text.
C11_RejectedPostsNothing ==
    \A p \in Polls :
        /\ replies[p] # <<>> => pc[p] = "rejected"
        /\ pc[p] = "rejected" =>
              /\ Len(replies[p]) = 1
              /\ Echoes(replies[p][1], command[p])
              /\ NothingPosted(p)

\* the same emoji on two lines with different labels, rejected
C11_Witness ==
    \E p \in Polls :
        /\ pc[p] = "rejected"
        /\ replies[p][1].kind = "DuplicateEmoji"
        /\ Len(command[p].options_str) = 2
        /\ command[p].options_str[1].description # command[p].options_str[2].description

(* ---- C12 ---- *)
\* line i of the block cannot become an option: it does not split in two,
\* its token is no emoji, or an earlier line has the same token
BadLine(lines, i) ==
    \/ lines[i].n < 2
    \/ ~check_emoji(lines[i].emoji_str)
    \/ \E j \in 1..(i - 1) : lines[j].emoji_str = lines[i].emoji_str

\* the reply line i asks for: MalformedOption before UnknownEmoji before
\* DuplicateEmoji
ReplyFor(lines, i) ==
    IF lines[i].n < 2 THEN Reply("MalformedOption", lines[i], NoTok, NoEnd)
    ELSE IF ~check_emoji(lines[i].emoji_str)
    THEN Reply("UnknownEmoji", NoLine, lines[i].emoji_str, NoEnd)
    ELSE Reply("DuplicateEmoji", NoLine, lines[i].emoji_str, NoEnd)

Invoked(p) == command[p] # NoCommand

\* C12: an unparseable end time is answered with InvalidDeadline whatever
\* the options are; otherwise the first bad line, in line order, decides
\* the reply (MalformedOption, then UnknownEmoji, then DuplicateEmoji within
\* the line); a command sends at most one reply, and none when the end time
\* and all lines are good.
C12_ErrorPrecedence ==
    \A p \in Polls : Invoked(p) =>
        LET c == command[p]
            lines == c.options_str
            bad == {i \in 1..Len(lines) : BadLine(lines, i)}
        IN IF parse_datetime(c.endtime_str, c.at) = ParserError
           THEN replies[p] = <<Reply("InvalidDeadline", NoLine, NoTok, c.endtime_str)>>
           ELSE IF bad # {}
           THEN replies[p] = <<ReplyFor(lines, CHOOSE i \in bad : \A j \in bad : i <= j)>>
           ELSE replies[p] = <<>> /\ pc[p] # "rejected"

\* an unknown emoji on line 1 is reported although line 2 does not split
C12_Witness ==
    \E p \in Polls :
        /\ Invoked(p)
        /\ Len(command[p].options_str) = 2
        /\ command[p].options_str[2].n < 2
        /\ replies[p] # <<>>
        /\ replies[p][1].kind = "UnknownEmoji"

(* ---- C13 ---- *)
\* the emoji a token denotes: a unicode emoji, or the custom emoji whose
\* name and id the bracketed form carries (the prefix before the first
\* colon is not part of its identity)
EmojiToken(emoji_str) ==
    IF is_emoji(emoji_str)
    THEN [custom |-> FALSE, name |-> emoji_str.name, id |-> 0]
    ELSE [custom |-> TRUE, name |-> emoji_str.name, id |-> emoji_str.id]

\* C13: a block of good lines in which a later line denotes the same emoji
\* as an earlier one is answered with DuplicateEmoji, and the options of a
\* posted poll denote pairwise distinct emoji.
C13_PostedEmojiDistinct ==
    \A p \in Polls :
        /\ Invoked(p) =>
              LET c == command[p]
                  lines == c.options_str
              IN ( /\ parse_datetime(c.endtime_str, c.at) # ParserError
                   /\ \A i \in 1..Len(lines) :
                          lines[i].n = 2 /\ check_emoji(lines[i].emoji_str)
                   /\ \E i, j \in 1..Len(lines) :
                          i < j /\ EmojiToken(lines[i].emoji_str) = EmojiToken(lines[j].emoji_str) )
                 => /\ Len(replies[p]) = 1
                    /\ replies[p][1].kind = "DuplicateEmoji"
        /\ poll_text[p] # <<>> =>
              \A i, j \in 1..Len(options[p]) :
                  i # j => EmojiToken(options[p][i].k) # EmojiToken(options[p][j].k)

(* ---- C14 ---- *)
\* everything the model holds of poll p
PollState(p) ==
    <<command[p], pc[p], end_time[p], options[p], self_message[p], seed_index[p],
      sleep[p], msg[p], reactions[p], votes[p], replies[p], poll_text[p], seeds[p],
      log[p], results[p], fetches[p]>>

\* the object of poll p holds what its own command asked for, and its tally
\* and result text are computed from its own message and options
OwnPoll(p) ==
    /\ pc[p] \notin {"idle", "rejected"} =>
          /\ options[p] = ParseOptions(command[p].options_str, <<>>).options
          /\ end_time[p] = parse_datetime(command[p].endtime_str, command[p].at)
    /\ pc[p] \in {"fetched", "logged", "Closed", "IndexError"} =>
          self_message[p].reactions = Fetched(reactions[p])
    /\ Tallied(p) => votes[p] = CountVotes(self_message[p].reactions, options[p], <<>>)
    /\ Closed(p) => results[p] = <<ResultText(SortedVotes(votes[p]), options[p])>>

\* whatever the other polls do, poll p can be created, its sleep can end when
\* its time is up, and it can finish after the refetch
NotBlocked(p) ==
    /\ pc[p] = "idle" => \E c \in ConcCommands : ENABLED VoteWith(p, c[1], c[2])
    /\ pc[p] = "sleeping" /\ SleepOver(sleep[p], now) => ENABLED FetchMessageFails(p)
    /\ pc[p] = "sleeping" /\ SleepOver(sleep[p], now) /\ msg[p] = "live" =>
          ENABLED FetchMessage(p)
    /\ pc[p] = "fetched" => ENABLED Tally(p)
    /\ pc[p] = "logged" => ENABLED Announce(p)

\* a step that changes one poll leaves every other poll as it was
OnePollPerStep ==
    \A p, q \in ConcPolls :
        (p # q /\ PollState(p)' # PollState(p)) => PollState(q)' = PollState(q)

\* C14: with two polls in flight and their steps interleaved in any order,
\* each poll keeps the options and end time of its own command, tallies its
\* own message and announces its own result; no step of one poll (its
\* failure at close time included) changes anything of the other, and no
\* poll's pending sleep keeps the other from being created or closed.
C14_PollsIndependent ==
    /\ [](\A p \in ConcPolls : OwnPoll(p) /\ NotBlocked(p))
    /\ [][OnePollPerStep]_vars

\* poll 1 failed at its refetch; poll 2, created with other labels while
\* the sleep of poll 1 was pending, closed with a vote counted
C14_Witness ==
    /\ Failed(1) /\ Closed(2)
    /\ sleep[1].since <= command[2].at
    /\ command[2].at - sleep[1].since < sleep[1].delay
    /\ options[1] # options[2]
    /\ results[1] = <<>>
    /\ Result(2)[1].vote_count = 1

(* ---- C15 ---- *)
\* the lines of a block as (emoji_str, description), in line order
LinePairs(lines) ==
    [i \in 1..Len(lines) |-> [k |-> lines[i].emoji_str, v |-> lines[i].description]]
\* the emoji of a sequence of options, in order
EmojiOf(opts) == [i \in 1..Len(opts) |-> opts[i].k]
\* the seed loop is over
Seeded(p) == pc[p] \in {"start", "sleeping", "fetched", "except", "Failed", "logged",
                        "Closed", "IndexError"}

\* C15: the options of an accepted command are its lines in line order, the
\* posted message lists them in that order, and the seed reactions are
\* attached in that order, one per option: a prefix while the loop runs,
\* all of them once it is over.
C15_LineOrderKept ==
    \A p \in Polls :
        /\ pc[p] \notin {"idle", "rejected"} =>
              options[p] = LinePairs(command[p].options_str)
        /\ poll_text[p] # <<>> =>
              poll_text[p] = <<LinePairs(command[p].options_str)>>
        /\ Len(seeds[p]) <= Len(options[p])
        /\ seeds[p] = SubSeq(EmojiOf(LinePairs(command[p].options_str)), 1, Len(seeds[p]))
        /\ pc[p] = "add_reactions" => Len(seeds[p]) = seed_index[p] - 1
        /\ Seeded(p) => seeds[p] = EmojiOf(LinePairs(command[p].options_str))

\* a poll of two lines with different emoji, posted and seeded in line order
C15_Witness ==
    \E p \in Polls :
        /\ Seeded(p)
        /\ Len(command[p].options_str) = 2
        /\ seeds[p] = <<command[p].options_str[1].emoji_str, command[p].options_str[2].emoji_str>>
        /\ Resolve(seeds[p][1]) # Resolve(seeds[p][2])

(* ---- C16 ---- *)
\* the command of poll p names an end time that had passed when it came
PastDeadline(p) ==
    /\ Invoked(p)
    /\ parse_datetime(command[p].endtime_str, command[p].at) # ParserError
    /\ parse_datetime(command[p].endtime_str, command[p].at) <= command[p].at

\* a past end time is accepted, the options decide alone whether the
\* command is rejected, and the sleep is over as soon as it begins
PastDeadlineAccepted(p) ==
    /\ \A i \in 1..Len(replies[p]) : replies[p][i].kind # "InvalidDeadline"
    /\ pc[p] = "rejected" <=> ParseOptions(command[p].options_str, <<>>).error
    /\ pc[p] \notin {"idle", "rejected"} => end_time[p] <= command[p].at
    /\ WaitBegun(p) => sleep[p].delay <= 0 /\ SleepOver(sleep[p], sleep[p].since)

\* start() has returned or raised
Ended(p) == pc[p] \in {"Closed", "Failed", "IndexError"}

\* C16: a command whose end time has already passed is not rejected for it;
\* its sleep has a delay of zero or less and is over at once; and when
\* start() has ended the poll is Closed or Failed.
C16_PastDeadlineCloses ==
    \A p \in Polls : PastDeadline(p) =>
        /\ PastDeadlineAccepted(p)
        /\ Ended(p) => Closed(p) \/ Failed(p)

(* ---- C17 ---- *)
\* the exception of ctx.send has left the command
PostingFailed(p) == pc[p] = "send_failed"

\* C17: when posting the poll message fails the command ends there with the
\* exception: no message exists, no seed reaction is attached, no sleep is
\* begun, nothing is logged, nothing is fetched and no result text is sent,
\* and no step of the command is left to take; and a command whose message
\* was never posted has done none of these things.
C17_PostingFailureLeavesNothing ==
    \A p \in Polls :
        /\ PostingFailed(p) =>
              /\ NothingPosted(p)
              /\ replies[p] = <<>>
              /\ ~ENABLED Run(p)
        /\ poll_text[p] = <<>> =>
              /\ seeds[p] = <<>> /\ reactions[p] = <<>>
              /\ ~WaitBegun(p) /\ sleep[p] = NoSleep
              /\ log[p] = <<>> /\ fetches[p] = 0 /\ results[p] = <<>>

\* posting failed for an accepted command of two options, after the clock
\* has gone on
C17_Witness ==
    \E p \in Polls :
        /\ PostingFailed(p)
        /\ Len(options[p]) = 2
        /\ now > command[p].at

(* ---- C18 ---- *)
\* the "Vote ended: ..." entries of the log of poll p
AuditLines(p) == SelectSeq(log[p], LAMBDA entry : entry.text = "Vote ended")
\* the options whose emoji has a reaction on the refetched message
OptionsWithReaction(p) ==
    {k \in Keys(options[p]) :
        \E i \in 1..Len(self_message[p].reactions) :
            EmojiStr(self_message[p].reactions[i].emoji) = k}

\* C18 as stated: the audit line lists exactly the options with at least one
\* counted vote; an option with count 0 is not in it.
C18_AuditListsVotedOnly ==
    \A p \in Polls : \A n \in 1..Len(AuditLines(p)) :
        LET line == AuditLines(p)[n].votes IN
        /\ \A i \in 1..Len(line) : line[i].v >= 1
        /\ Keys(line) = {k \in Keys(votes[p]) : DictGet(votes[p], k) >= 1}

\* C18, amended: exactly one audit line is written when the votes are
\* counted, none before; it lists the whole votes table in table order, that
\* is every option whose emoji has a reaction on the refetched message, with
\* its raw count minus one, counts of 0 included.
C18_AuditListsVoteTable ==
    \A p \in Polls :
        /\ Len(AuditLines(p)) = IF Tallied(p) THEN 1 ELSE 0
        /\ Tallied(p) =>
              LET line == AuditLines(p)[1].votes IN
              /\ line = votes[p]
              /\ Keys(line) = OptionsWithReaction(p)
              /\ \A i \in 1..Len(line) :
                    \E j \in 1..Len(self_message[p].reactions) :
                        /\ EmojiStr(self_message[p].reactions[j].emoji) = line[i].k
                        /\ line[i].v = self_message[p].reactions[j].count - 1

\* an audit line of two options, one with a vote and one with count 0
C18_Witness ==
    \E p \in Polls :
        /\ Tallied(p)
        /\ Len(AuditLines(p)[1].votes) = 2
        /\ \E i, j \in 1..2 : AuditLines(p)[1].votes[i].v = 0 /\ AuditLines(p)[1].votes[j].v = 1

(* ---- C19 ---- *)
\* the texts of the log of poll p, in order
LogTexts(p) == [i \in 1..Len(log[p]) |-> log[p][i].text]

\* C19: a poll sends at most one result text and never both the warning and
\* a result text; a Closed poll has made one post, one add_reaction call per
\* option, one fetch, the two log entries and one result text, a Failed poll
\* one post, its add_reaction calls, one fetch, the start entry and the
\* warning and no result text; in both no step of the poll is left to take
\* (what was sent is kept for ever, so nothing is added later).
C19_OutcomeUniqueAndFinal ==
    \A p \in Polls :
        /\ Len(results[p]) <= 1
        /\ ~(Warnings(p) > 0 /\ results[p] # <<>>)
        /\ ~(Closed(p) /\ Failed(p))
        /\ Closed(p) =>
              /\ Len(results[p]) = 1 /\ Warnings(p) = 0
              /\ LogTexts(p) = <<"Vote started!", "Vote ended">>
        /\ Failed(p) =>
              /\ results[p] = <<>>
              /\ LogTexts(p) = <<"Vote started!", "Vote ended but the message was not found!">>
        /\ Closed(p) \/ Failed(p) =>
              /\ fetches[p] = 1 /\ Len(poll_text[p]) = 1 /\ replies[p] = <<>>
              /\ Len(seeds[p]) = Len(options[p])
              /\ ~ENABLED Run(p)

\* a poll that waited for its end time has closed with one line, on which
\* both voters are counted
C19_Witness ==
    \E p \in Polls :
        /\ Closed(p)
        /\ end_time[p] > command[p].at
        /\ Len(Result(p)) = 1
        /\ Result(p)[1].vote_count = NumVoters

(* ---- C20 ---- *)
\* an add_reaction call has raised and the exception has left the command
SeedingFailed(p) == pc[p] = "reaction_failed"

\* C20: when an add_reaction call raises, the command ends there: the
\* message stays posted with the seed reactions attached before, the option
\* that failed and those after it get no add_reaction call, the sleep is
\* never begun, nothing is logged, fetched or counted, no result text is
\* sent, and no step of the command is left to take.  A posted poll with
\* fewer add_reaction calls than options is either still in the loop or
\* abandoned this way.
C20_SeedFailureAbandonsPoll ==
    \A p \in Polls :
        /\ SeedingFailed(p) =>
              /\ Len(poll_text[p]) = 1 /\ msg[p] # "none"
              /\ Len(seeds[p]) < Len(options[p])
              /\ Len(seeds[p]) = seed_index[p] - 1
              /\ ~WaitBegun(p) /\ sleep[p] = NoSleep
              /\ log[p] = <<>> /\ fetches[p] = 0
              /\ votes[p] = <<>> /\ results[p] = <<>>
              /\ ~Closed(p) /\ ~Failed(p)
              /\ ~ENABLED Run(p)
        /\ (poll_text[p] # <<>> /\ Len(seeds[p]) < Len(options[p])) =>
              /\ pc[p] \in {"add_reactions", "reaction_failed"}
              /\ log[p] = <<>> /\ fetches[p] = 0 /\ results[p] = <<>>

\* the second of two seed reactions failed on a message that is still there
\* and carries the first
C20_Witness ==
    \E p \in Polls :
        /\ SeedingFailed(p)
        /\ Len(options[p]) = 2
        /\ Len(seeds[p]) = 1
        /\ msg[p] = "live"
        /\ \E e \in Resolve(seeds[p][1]) : Reacted(reactions[p], Me, e)

====
